---------------------------- MODULE Spec2Model ----------------------------
(*
  Model of the Audioteka metadata provider (src/server.js).

  server.js holds two builds of the provider, one after the other:
    build 1 (lines 1-307):   normalize, extractTitleComponents, calculateScore,
                             removeDuplicates, page ceiling MAX_RESULTS * 2;
    build 2 (lines 308-661): normalizeString, calculateMatchScore, no
                             deduplication, page ceiling MAX_RESULTS.
  The variable `version` says which build serves the request.

  A JavaScript string is a sequence of characters; a character is a
  one-letter string.  The accented letter o-acute is written "o'" and the
  Polish l-stroke is written "l/" so that the module stays ASCII.

  Ratings are kept in tenths (45 is 4.5).  Scores are kept in points; the
  queries of the model have at most three words, so the quotients
  (matches / words) * 60 and (matches / words) * 30 are whole numbers.
*)
EXTENDS Integers, Sequences, FiniteSets, TLC

\* ------------------------------------------------------------------------
\* Characters
\* ------------------------------------------------------------------------

\* String.prototype.toLowerCase on one character.
ToLowerChar(c) ==
  CASE c = "A" -> "a" [] c = "B" -> "b" [] c = "C" -> "c" [] c = "D" -> "d"
    [] c = "E" -> "e" [] c = "F" -> "f" [] c = "G" -> "g" [] c = "H" -> "h"
    [] c = "I" -> "i" [] c = "J" -> "j" [] c = "K" -> "k" [] c = "L" -> "l"
    [] c = "M" -> "m" [] c = "N" -> "n" [] c = "O" -> "o" [] c = "P" -> "p"
    [] c = "Q" -> "q" [] c = "R" -> "r" [] c = "S" -> "s" [] c = "T" -> "t"
    [] c = "U" -> "u" [] c = "V" -> "v" [] c = "W" -> "w" [] c = "X" -> "x"
    [] c = "Y" -> "y" [] c = "Z" -> "z" [] c = "O'" -> "o'" [] c = "L/" -> "l/"
    [] OTHER -> c

\* normalize("NFD") followed by the removal of the combining marks
\* U+0300..U+036F: o-acute decomposes to o + U+0301 and loses the mark;
\* l-stroke has no decomposition and stays.
StripDiacritic(c) ==
  CASE c = "o'" -> "o" [] c = "O'" -> "O" [] OTHER -> c

\* \w of a JavaScript regular expression without the u flag: [A-Za-z0-9_].
IsWordChar(c) ==
  c \in { "a","b","c","d","e","f","g","h","i","j","k","l","m","n","o","p",
          "q","r","s","t","u","v","w","x","y","z",
          "A","B","C","D","E","F","G","H","I","J","K","L","M","N","O","P",
          "Q","R","S","T","U","V","W","X","Y","Z",
          "0","1","2","3","4","5","6","7","8","9","_" }

\* \s: the model's strings hold the space as their only white space.
IsSpace(c) == c = " "

\* \d
IsDigit(c) == c \in {"0","1","2","3","4","5","6","7","8","9"}

DigitValue(c) ==
  CASE c = "0" -> 0 [] c = "1" -> 1 [] c = "2" -> 2 [] c = "3" -> 3
    [] c = "4" -> 4 [] c = "5" -> 5 [] c = "6" -> 6 [] c = "7" -> 7
    [] c = "8" -> 8 [] c = "9" -> 9 [] OTHER -> 0

\* ------------------------------------------------------------------------
\* String helpers (String.prototype methods used by the source)
\* ------------------------------------------------------------------------

MapChars(Op(_), s) == [i \in 1..Len(s) |-> Op(s[i])]

\* s.replace(/\s+/g, ' ') from character i on: every run of white space
\* becomes one space.
RECURSIVE CollapseFrom(_, _)
CollapseFrom(s, i) ==
  IF i > Len(s) THEN <<>>
  ELSE IF IsSpace(s[i]) /\ i > 1 /\ IsSpace(s[i-1]) THEN CollapseFrom(s, i + 1)
  ELSE <<IF IsSpace(s[i]) THEN " " ELSE s[i]>> \o CollapseFrom(s, i + 1)

\* The first index >= i of s that holds no white space (Len(s) + 1 if none).
RECURSIVE SkipSpaces(_, _)
SkipSpaces(s, i) ==
  IF i > Len(s) \/ ~IsSpace(s[i]) THEN i ELSE SkipSpaces(s, i + 1)

\* The last index <= i of s that holds no white space (0 if none).
RECURSIVE SkipSpacesBack(_, _)
SkipSpacesBack(s, i) ==
  IF i < 1 \/ ~IsSpace(s[i]) THEN i ELSE SkipSpacesBack(s, i - 1)

\* String.prototype.trim
Trim(s) ==
  LET a == SkipSpaces(s, 1)
      b == SkipSpacesBack(s, Len(s))
  IN  IF a > b THEN <<>> ELSE SubSeq(s, a, b)

\* s.substring(i - 1).startsWith(t): t occurs in s at index i.
OccursAt(s, t, i) ==
  /\ i + Len(t) - 1 <= Len(s)
  /\ \A k \in 1..Len(t) : s[i + k - 1] = t[k]

\* String.prototype.includes
Includes(s, t) == \E i \in 1..(Len(s) + 1) : OccursAt(s, t, i)

\* s.split(/\s+/) from character i on, `cur` being the piece under way.  A
\* string without white space is one piece, the empty string included.
RECURSIVE SplitSpacesFrom(_, _, _)
SplitSpacesFrom(s, i, cur) ==
  IF i > Len(s) THEN <<cur>>
  ELSE IF IsSpace(s[i])
       THEN <<cur>> \o SplitSpacesFrom(s, SkipSpaces(s, i) , <<>>)
       ELSE SplitSpacesFrom(s, i + 1, Append(cur, s[i]))

SplitSpaces(s) == SplitSpacesFrom(s, 1, <<>>)

\* Array.prototype.join(sep)
RECURSIVE Join(_, _)
Join(parts, sep) ==
  IF parts = <<>> THEN <<>>
  ELSE IF Len(parts) = 1 THEN parts[1]
  ELSE parts[1] \o sep \o Join(Tail(parts), sep)

\* The number of indices of a sequence that satisfy a test.
CountIf(seq, Test(_)) == Cardinality({ i \in 1..Len(seq) : Test(seq[i]) })

\* ------------------------------------------------------------------------
\* normalize (build 1) and normalizeString (build 2)
\* ------------------------------------------------------------------------

\* The character that replace(/[^\w\s]/g, ' ') leaves in place of c.
PunctToSpace(c) == IF IsWordChar(c) \/ IsSpace(c) THEN c ELSE " "

normalize(str) ==
  Trim(CollapseFrom(
    MapChars(PunctToSpace,
      MapChars(StripDiacritic,
        MapChars(ToLowerChar, str))), 1))

\* replace(/[^\w\s]/g, ''): the other characters are deleted, white space is
\* neither collapsed nor trimmed.
IsWordOrSpace(c) == IsWordChar(c) \/ IsSpace(c)

normalizeString(str) ==
  SelectSeq(MapChars(StripDiacritic, MapChars(ToLowerChar, str)), IsWordOrSpace)

\* ------------------------------------------------------------------------
\* extractTitleComponents (build 1)
\* ------------------------------------------------------------------------

\* null, where the source holds a number or null (a year, a rating).  No
\* year and no rating of the model is negative.
Null == -1

\* The null that String.prototype.match returns when the pattern fails.
NoMatch == [ matched |-> FALSE ]

\* The literals of the two patterns.
AudiobookTag == <<"[","a","u","d","i","o","b","o","o","k"," ","P","L","]">>

Superprodukcja == <<"S","u","p","e","r","p","r","o","d","u","k","c","j","a">>

Oraz == <<"o","r","a","z">>

\* The literal lit matches s at index i under the i flag.
MatchCI(s, lit, i) ==
  /\ i >= 1
  /\ i + Len(lit) - 1 <= Len(s)
  /\ \A k \in 1..Len(lit) : ToLowerChar(s[i + k - 1]) = ToLowerChar(lit[k])

\* The indices t at which \[audiobook PL\](?:\s+Superprodukcja)?$ matches s.
\* The pattern is anchored at the end, so there is at most one.
TagStarts(s) ==
  { t \in 1..Len(s) :
      /\ MatchCI(s, AudiobookTag, t)
      /\ LET after == t + Len(AudiobookTag)
             u     == SkipSpaces(s, after)
         IN  \/ after = Len(s) + 1
             \/ /\ u > after
                /\ MatchCI(s, Superprodukcja, u)
                /\ u + Len(Superprodukcja) = Len(s) + 1 }

\* The index of the "(" at which \((\d{4})\)\s* matches s up to the tag at
\* t, or 0.
YearStart(s, t) ==
  LET close == SkipSpacesBack(s, t - 1)
      open  == close - 5
  IN  IF /\ open >= 1
         /\ s[close] = ")"
         /\ s[open] = "("
         /\ \A k \in 1..4 : IsDigit(s[open + k])
      THEN open ELSE 0

\* parseInt(digits, 10)
RECURSIVE ParseInt(_)
ParseInt(digits) ==
  IF digits = <<>> THEN 0
  ELSE 10 * ParseInt(SubSeq(digits, 1, Len(digits) - 1))
       + DigitValue(digits[Len(digits)])

\* The lengths i of a first group such that \s+-\s+ matches s right after
\* s[1..i] and ends before the index `stop` (where the rest of the pattern
\* has to match).
SeparatorAfter(s, i, stop) ==
  LET dash == SkipSpaces(s, i + 1)
  IN  /\ i + 1 <= Len(s)
      /\ IsSpace(s[i + 1])
      /\ dash + 1 < stop
      /\ s[dash] = "-"
      /\ IsSpace(s[dash + 1])

\* If a separator of /\s*,\s*|\s+i\s+|\s+oraz\s+/i matches s at index q, the
\* index that follows the match; 0 otherwise.  The alternatives are tried in
\* the order of the pattern.
SeparatorEnd(s, q) ==
  LET a == SkipSpaces(s, q)
  IN  IF a <= Len(s) /\ s[a] = ","
        THEN SkipSpaces(s, a + 1)
      ELSE IF /\ a > q
              /\ a + 1 <= Len(s)
              /\ ToLowerChar(s[a]) = "i"
              /\ IsSpace(s[a + 1])
        THEN SkipSpaces(s, a + 1)
      ELSE IF /\ a > q
              /\ MatchCI(s, Oraz, a)
              /\ a + Len(Oraz) <= Len(s)
              /\ IsSpace(s[a + Len(Oraz)])
        THEN SkipSpaces(s, a + Len(Oraz))
      ELSE 0

\* match[1].split(/\s*,\s*|\s+i\s+|\s+oraz\s+/i): `start` is where the piece
\* under way begins, q the index at which the next separator is looked for.
RECURSIVE SplitAuthorsFrom(_, _, _)
SplitAuthorsFrom(s, start, q) ==
  IF q > Len(s) THEN << SubSeq(s, start, Len(s)) >>
  ELSE IF SeparatorEnd(s, q) > 0
       THEN << SubSeq(s, start, q - 1) >>
            \o SplitAuthorsFrom(s, SeparatorEnd(s, q), SeparatorEnd(s, q))
       ELSE SplitAuthorsFrom(s, start, q + 1)

SplitAuthors(s) == SplitAuthorsFrom(s, 1, 1)

\* One pattern of extractTitleComponents applied to s, the rest of the match
\* after the second group beginning at index `stop`
\* (0: the rest matches nowhere): the lazy first group is
\* the shortest prefix followed by a separator, the greedy \s+ takes all the
\* white space behind the dash, and the lazy second group ends at the last
\* character that \s* cannot take.
MatchPattern(s, stop, year) ==
  LET firsts == { i \in 0..Len(s) : SeparatorAfter(s, i, stop) }
  IN  IF stop = 0 \/ firsts = {} THEN NoMatch
      ELSE LET i    == CHOOSE x \in firsts : \A y \in firsts : x <= y
               dash == SkipSpaces(s, i + 1)
               k    == SkipSpaces(s, dash + 1)
               j    == SkipSpacesBack(s, stop - 1)
           IN  [ matched    |-> TRUE,
                 authors    |-> SplitAuthors(SubSeq(s, 1, i)),
                 cleanTitle |-> IF j < k THEN <<>> ELSE SubSeq(s, k, j),
                 year       |-> year ]

extractTitleComponents(title) ==
  LET tags == TagStarts(title)
      t    == IF tags = {} THEN 0 ELSE CHOOSE x \in tags : TRUE
      y    == IF t = 0 THEN 0 ELSE YearStart(title, t)
      withYear == IF y = 0 THEN NoMatch
                  ELSE MatchPattern(title, y, ParseInt(SubSeq(title, y + 1, y + 4)))
  IN  IF withYear.matched THEN withYear
      ELSE MatchPattern(title, t, Null)

\* ------------------------------------------------------------------------
\* Objects
\* ------------------------------------------------------------------------

\* {...earlier, ...later}: the later object's properties win.
Spread(earlier, later) == later @@ earlier

Has(obj, field) == field \in DOMAIN obj

\* book.cleanTitle || book.title: an absent and an empty cleanTitle are
\* both falsy.
TitleOf(book) ==
  IF Has(book, "cleanTitle") /\ book.cleanTitle # <<>>
  THEN book.cleanTitle ELSE book.title

\* match.authors[0] || ''
FirstAuthor(book) == IF book.authors = <<>> THEN <<>> ELSE book.authors[1]

\* book.rating >= 4.5 ? 10 : book.rating >= 4.0 ? 5 : 0 (null >= 4.5 is false)
RatingBonus(book) ==
  IF book.rating >= 45 THEN 10 ELSE IF book.rating >= 40 THEN 5 ELSE 0

\* Mutant of getFullYear: a reading of the clock finer than the year.
getFullYearWithMonth(date) == date.year * 100 + date.month

\* new Date().getFullYear()
getFullYear(date) == date.year

Min(a, b) == IF a <= b THEN a ELSE b

\* ------------------------------------------------------------------------
\* calculateScore (build 1) and calculateMatchScore (build 2)
\* ------------------------------------------------------------------------

calculateScore(book, query, author, date) ==
  LET normQuery       == normalize(query)
      normAuthor      == normalize(author)
      normTitle       == normalize(TitleOf(book))
      normBookAuthors == [ i \in 1..Len(book.authors) |-> normalize(book.authors[i]) ]
      partial    == IF Includes(normTitle, normQuery) \/ Includes(normQuery, normTitle)
                    THEN 80 ELSE 0
      LongWord(w) == Len(w) > 1
      titleWords == SelectSeq(SplitSpaces(normQuery), LongWord)
      InTitle(w)  == Includes(normTitle, w)
      titleMatches == CountIf(titleWords, InTitle)
      words      == IF Len(titleWords) > 0
                    THEN (titleMatches * 60) \div Len(titleWords) ELSE 0
      authorMatch == \E i \in 1..Len(normBookAuthors) :
                        \/ Includes(normBookAuthors[i], normAuthor)
                        \/ Includes(normAuthor, normBookAuthors[i])
      byAuthor   == IF normAuthor # <<>> /\ authorMatch THEN 25 ELSE 0
      recency    == IF book.year = getFullYear(date) THEN 5 ELSE 0
  IN  IF normTitle = normQuery THEN 95
      ELSE Min(partial + words + byAuthor + RatingBonus(book) + recency, 100)

calculateMatchScore(book, query, author) ==
  LET normQuery       == normalizeString(query)
      normAuthor      == IF author # <<>> THEN normalizeString(author) ELSE <<>>
      normTitle       == normalizeString(book.title)
      normBookAuthors ==
        Join([ i \in 1..Len(book.authors) |-> normalizeString(book.authors[i]) ], <<" ">>)
      exact      == IF Includes(normTitle, normQuery) THEN 50 ELSE 0
      titleWords == SplitSpaces(normTitle)
      queryWords == SplitSpaces(normQuery)
      InTitle(w) == \E i \in 1..Len(titleWords) : titleWords[i] = w
      partial    == (CountIf(queryWords, InTitle) * 30) \div Len(queryWords)
      byAuthor   == IF normAuthor # <<>> /\ Includes(normBookAuthors, normAuthor) THEN 40
                    ELSE IF author # <<>> THEN -20
                    ELSE 0
  IN  exact + partial + byAuthor + RatingBonus(book)

\* ------------------------------------------------------------------------
\* removeDuplicates (build 1)
\* ------------------------------------------------------------------------

\* `${normalize(match.cleanTitle || match.title)}|${normalize(match.authors[0] || '')}`
DedupKey(match) == << normalize(TitleOf(match)), normalize(FirstAuthor(match)) >>

\* matches.filter(...) with the Set `seen`: an entry is kept when no earlier
\* entry has its key.
removeDuplicates(matches) ==
  LET Keep(i) == \A j \in 1..(i - 1) : DedupKey(matches[j]) # DedupKey(matches[i])
      RECURSIVE From(_)
      From(i) == IF i > Len(matches) THEN <<>>
                 ELSE IF Keep(i) THEN <<matches[i]>> \o From(i + 1)
                 ELSE From(i + 1)
  IN  From(1)

\* ------------------------------------------------------------------------
\* Array.prototype.sort((a, b) => b.score - a.score) and slice
\* ------------------------------------------------------------------------

\* The comparator of both builds.
CompareScore(a, b) == b.score - a.score

\* Mutant of SortByScore: a sort that is not stable, x going before the
\* elements that compare equal to it.
RECURSIVE SortByScoreUnstable(_)
SortByScoreUnstable(arr) ==
  IF arr = <<>> THEN <<>>
  ELSE LET n      == Len(arr)
           x      == arr[n]
           sorted == SortByScoreUnstable(SubSeq(arr, 1, n - 1))
           before == { i \in 1..(n - 1) : CompareScore(sorted[i], x) < 0 }
           k      == Cardinality(before)
       IN  SubSeq(sorted, 1, k) \o <<x>> \o SubSeq(sorted, k + 1, n - 1)

\* Array.prototype.sort is stable (ECMAScript 2019; the image runs Node 18):
\* x goes behind every element that the comparator does not put after it.
RECURSIVE SortByScore(_)
SortByScore(arr) ==
  IF arr = <<>> THEN <<>>
  ELSE LET n      == Len(arr)
           x      == arr[n]
           sorted == SortByScore(SubSeq(arr, 1, n - 1))
           before == { i \in 1..(n - 1) : CompareScore(sorted[i], x) <= 0 }
           k      == Cardinality(before)
       IN  SubSeq(sorted, 1, k) \o <<x>> \o SubSeq(sorted, k + 1, n - 1)

\* Mutant of Slice: one element too many.
SliceOneMore(arr, end) == SubSeq(arr, 1, Min(end + 1, Len(arr)))

\* arr.slice(0, end) for end >= 0
Slice(arr, end) == SubSeq(arr, 1, Min(end, Len(arr)))

\* ------------------------------------------------------------------------
\* Bounds and inputs
\* ------------------------------------------------------------------------

\* MAX_RESULTS is configured through the environment: the model takes the
\* values 1..MaxConfigured.
MaxConfigured == 3

\* The hard page-count ceiling of the pagination loop.
MaxPages == 3

\* Strings of the model.
StrEmpty == <<>>

StrBor == <<"b","o","r">>

StrBorTadeusza == <<"b","o","r"," ","t","a","d","e","u","s","z","a">>

StrJanLower == <<"j","a","n">>

StrJan == <<"J","a","n">>

StrAdam == <<"A","d","a","m">>

\* The search results the catalogue site can show: what searchBooks scrapes
\* from one teaser element (the url and the cover follow the id).
ElBorYear ==
  [ id |-> 1, title |-> <<"J","a","n"," ","-"," ","B","o'","r"," ","(","2","0","2","1",")"," ","[","a","u","d","i","o","b","o","o","k"," ","P","L","]">>,
    authors |-> <<StrJan>>, rating |-> 46 ]

ElBorNoYear ==
  [ id |-> 2, title |-> <<"J","a","n"," ","-"," ","B","o'","r"," ","[","a","u","d","i","o","b","o","o","k"," ","P","L","]">>,
    authors |-> <<StrJan>>, rating |-> Null ]

ElBorUpper ==
  [ id |-> 3, title |-> <<"B","O","R">>,
    authors |-> <<StrJan>>, rating |-> 40 ]

ElBorTadeusza ==
  [ id |-> 4, title |-> <<"B","o'","r"," ","T","a","d","e","u","s","z","a">>,
    authors |-> <<StrAdam>>, rating |-> 47 ]

ElZemsta ==
  [ id |-> 5, title |-> <<"A","d","a","m"," ","-"," ","Z","e","m","s","t","a"," ","(","2","0","2","1",")"," ","[","a","u","d","i","o","b","o","o","k"," ","P","L","]">>,
    authors |-> <<StrAdam>>, rating |-> Null ]

ElNoTitle ==
  [ id |-> 6, title |-> StrEmpty, authors |-> <<StrAdam>>, rating |-> Null ]

\* The result pages the catalogue site can answer with, whatever the page
\* number asked for.
CatalogPages ==
  { <<>>,
    <<ElBorYear, ElBorNoYear>>,
    <<ElBorUpper, ElBorTadeusza>>,
    <<ElZemsta, ElNoTitle>> }

\* req.query.query, req.query.author, req.query.page
Queries == { StrEmpty, StrBor, StrBorTadeusza }

Authors == { StrEmpty, StrJanLower }

StartPages == { 1, 2 }

\* The dates at which a request can be served.
Dates == { [ year |-> 2021, month |-> 1 ],
           [ year |-> 2021, month |-> 12 ],
           [ year |-> 2022, month |-> 1 ] }

\* What getFullMetadata reads on a book's page.
DetailPages ==
  { [ narrator |-> "lektor", rating |-> 48, publishedYear |-> 2020 ] }

\* ------------------------------------------------------------------------
\* AudiotekaProvider.searchBooks
\* ------------------------------------------------------------------------

\* if (title && bookUrl && authors[0]) in build 1,
\* if (title && bookUrl && authors.length > 0) in build 2; bookUrl is the
\* base url followed by the href and never empty.
KeepsElement(v, el) ==
  /\ el.title # <<>>
  /\ IF v = 1 THEN el.authors[1] # <<>> ELSE Len(el.authors) > 0

\* The try block: `elements` are the teasers of the page, nextLink says
\* whether the page holds a[aria-label="Next"].
searchBooks(v, elements, nextLink) ==
  LET Keep(el) == KeepsElement(v, el)
      matches  == SelectSeq(elements, Keep)
  IN  [ matches |-> matches,
        hasMore |-> IF v = 1 THEN nextLink ELSE (Len(matches) > 0 /\ nextLink) ]

\* The catch block.
searchBooksCatch == [ matches |-> <<>>, hasMore |-> FALSE ]

\* ------------------------------------------------------------------------
\* The /search handler between two awaits
\* ------------------------------------------------------------------------

\* allMatches.length < MAX_RESULTS * 2 (build 1), < MAX_RESULTS (build 2)
CountCeiling(v, maxResults) == IF v = 1 THEN maxResults * 2 ELSE maxResults

\* Mutant of LoopCondition: the loop without its page ceiling.
LoopConditionNoPageCeiling(v, more, all, count, maxResults) ==
  /\ more
  /\ Len(all) < CountCeiling(v, maxResults)

\* The condition of the while loop.
LoopCondition(v, more, all, count, maxResults) ==
  /\ more
  /\ Len(all) < CountCeiling(v, maxResults)
  /\ count < MaxPages

\* extractTitleComponents(book.title) || { authors, cleanTitle, year }
ComponentsOf(book, fallbackYear) ==
  LET m == extractTitleComponents(book.title)
  IN  IF m.matched
      THEN [ authors |-> m.authors, cleanTitle |-> m.cleanTitle, year |-> m.year ]
      ELSE [ authors |-> book.authors, cleanTitle |-> book.title,
             year |-> fallbackYear ]

\* One entry of scoredMatches.
ScoreBook(v, book, q, a, date) ==
  IF v = 1
  THEN LET bookWithComponents == Spread(book, ComponentsOf(book, getFullYear(date)))
       IN  Spread(bookWithComponents,
                  [ score |-> calculateScore(bookWithComponents, q, a, date) ])
  ELSE Spread(book, [ score |-> calculateMatchScore(book, q, a) ])

\* scoredMatches: build 1 scores the listings that removeDuplicates keeps,
\* build 2 scores them all.
ScoredMatches(v, all, q, a, date) ==
  LET unique == IF v = 1 THEN removeDuplicates(all) ELSE all
  IN  [ i \in 1..Len(unique) |-> ScoreBook(v, unique[i], q, a, date) ]

\* topMatches
TopMatches(v, all, q, a, date, maxResults) ==
  Slice(SortByScore(ScoredMatches(v, all, q, a, date)), maxResults)

\* ------------------------------------------------------------------------
\* AudiotekaProvider.getFullMetadata
\* ------------------------------------------------------------------------

\* The object the try block returns, `detail` being what the book's page
\* holds.  Build 1 decomposes the title again and falls back to the year of
\* the page.
getFullMetadata(v, match, detail) ==
  LET scraped == [ narrator  |-> detail.narrator,
                   rating    |-> detail.rating,
                   languages |-> <<"polish">> ]
  IN  IF v = 1
      THEN LET titleComponents == ComponentsOf(match, detail.publishedYear)
           IN  Spread(Spread(Spread(match, titleComponents), scraped),
                      [ publishedYear |-> titleComponents.year ])
      ELSE Spread(Spread(match, scraped),
                  [ publishedYear |-> detail.publishedYear ])

\* The catch block: return match.
getFullMetadataCatch(match) == match

\* One element of the array that Promise.all resolves to: build 1 writes the
\* score of the match over the metadata, build 2 passes the metadata on.
Enriched(v, match, metadata) ==
  IF v = 1 THEN Spread(metadata, [ score |-> match.score ]) ELSE metadata

\* ------------------------------------------------------------------------
\* The response
\* ------------------------------------------------------------------------

\* The entry of one book in res.json({ matches: [...] }).  Build 1 reads
\* book.languages[0], which throws a TypeError when book has no languages;
\* build 2 guards the read.
Throws(v, book) == v = 1 /\ ~Has(book, "languages")

FormatBook(v, book) ==
  [ title    |-> IF v = 1 THEN TitleOf(book) ELSE book.title,
    author   |-> Join(book.authors, <<",", " ">>),
    narrator |-> IF Has(book, "narrator") THEN book.narrator ELSE "undefined",
    language |-> IF Has(book, "languages") /\ Len(book.languages) > 0
                 THEN book.languages[1] ELSE "undefined",
    rating   |-> book.rating,
    link     |-> book.id ]

\* What the handler sends once Promise.all has resolved to `books`: the
\* formatted matches, or the answer of the catch block when formatting throws.
ResponseFor(v, books) ==
  IF \E i \in 1..Len(books) : Throws(v, books[i])
  THEN [ status |-> 500, error |-> "Internal server error" ]
  ELSE [ status |-> 200,
         matches |-> [ i \in 1..Len(books) |-> FormatBook(v, books[i]) ] ]

NoResponse == [ status |-> 0 ]

BadRequest == [ status |-> 400, error |-> "Query parameter is required" ]

\* ------------------------------------------------------------------------
\* State
\* ------------------------------------------------------------------------

VARIABLES
  version,       \* the build of server.js that runs: 1 or 2
  MAX_RESULTS,   \* the configured MAX_RESULTS
  pc,            \* where the handler of the request stands
  query,         \* req.query.query
  author,        \* req.query.author
  allMatches,    \* the listings accumulated by the pagination loop
  currentPage,   \* the next page to ask for
  hasMore,       \* the loop's hasMore
  pageCount,     \* the loop's pageCount
  inFlight,      \* the pages asked for and not yet answered
  topMatches,    \* the ranked candidates handed to the enrichment
  fullMetadata,  \* the array Promise.all fills: a pending mark or a book
  response,      \* what the handler sent
  now,           \* history: the date read while ranking
  requested,     \* history: the pages asked for, in order
  fetchFailed,   \* history: a page fetch of this request failed
  returned       \* history: what searchBooks returned, page after page

vars == << version, MAX_RESULTS, pc, query, author, allMatches, currentPage,
           hasMore, pageCount, inFlight, topMatches, fullMetadata, response,
           now, requested, fetchFailed, returned >>

Pending == [ pending |-> TRUE ]

IsPending(x) == Has(x, "pending")

NoDate == [ year |-> 0, month |-> 0 ]

Init ==
  /\ version \in {1, 2}
  /\ MAX_RESULTS \in 1..MaxConfigured
  /\ pc = "idle"
  /\ query = <<>>
  /\ author = <<>>
  /\ allMatches = <<>>
  /\ currentPage = 0
  /\ hasMore = FALSE
  /\ pageCount = 0
  /\ inFlight = {}
  /\ topMatches = <<>>
  /\ fullMetadata = <<>>
  /\ response = NoResponse
  /\ now = NoDate
  /\ requested = <<>>
  /\ fetchFailed = FALSE
  /\ returned = <<>>

\* ------------------------------------------------------------------------
\* Actions
\* ------------------------------------------------------------------------

\* app.get('/search'): the request comes in; an empty query is answered 400,
\* otherwise the loop variables are set.
HandleRequest ==
  /\ pc = "idle"
  /\ \E q \in Queries, a \in Authors, p \in StartPages :
       /\ query' = q
       /\ author' = a
       /\ IF q = <<>>
          THEN /\ response' = BadRequest
               /\ pc' = "done"
               /\ UNCHANGED << currentPage, hasMore >>
          ELSE /\ currentPage' = p
               /\ hasMore' = TRUE
               /\ pc' = "loop"
               /\ UNCHANGED response
  /\ UNCHANGED << version, MAX_RESULTS, allMatches, pageCount, inFlight,
                  topMatches, fullMetadata, now, requested, fetchFailed,
                  returned >>

\* Mutant of RequestPage: searchBooks is called and not awaited, the loop
\* going on to the next page at once.
RequestPageNoAwait ==
  /\ pc = "loop"
  /\ LoopCondition(version, hasMore, allMatches, pageCount, MAX_RESULTS)
  /\ inFlight' = inFlight \cup {currentPage}
  /\ requested' = Append(requested, currentPage)
  /\ currentPage' = currentPage + 1
  /\ pageCount' = pageCount + 1
  /\ UNCHANGED << version, MAX_RESULTS, pc, query, author, allMatches, hasMore,
                  topMatches, fullMetadata, response, now, fetchFailed,
                  returned >>

\* The while condition holds: provider.searchBooks(query, author,
\* currentPage) is called and awaited.
RequestPage ==
  /\ pc = "loop"
  /\ LoopCondition(version, hasMore, allMatches, pageCount, MAX_RESULTS)
  /\ inFlight' = inFlight \cup {currentPage}
  /\ requested' = Append(requested, currentPage)
  /\ pc' = "awaitPage"
  /\ UNCHANGED << version, MAX_RESULTS, query, author, allMatches, currentPage,
                  hasMore, pageCount, topMatches, fullMetadata, response, now,
                  fetchFailed, returned >>

\* Mutant of Accumulate: hasMore taken from the page alone, a page without
\* listings not ending the loop.
AccumulateIgnoresEmptyPage(result) ==
  /\ allMatches' = allMatches \o result.matches
  /\ hasMore' = result.hasMore
  /\ currentPage' = currentPage + 1
  /\ pageCount' = pageCount + 1
  /\ inFlight' = inFlight \ {currentPage}
  /\ returned' = Append(returned, result)
  /\ pc' = "loop"

\* The body of the loop behind the await, for the object searchBooks
\* returned.
Accumulate(result) ==
  /\ allMatches' = allMatches \o result.matches
  /\ hasMore' = IF version = 1
                THEN result.hasMore /\ Len(result.matches) > 0
                ELSE result.hasMore
  /\ currentPage' = currentPage + 1
  /\ pageCount' = pageCount + 1
  /\ inFlight' = inFlight \ {currentPage}
  /\ returned' = Append(returned, result)
  /\ pc' = "loop"

\* searchBooks answers with the listings of a page.
PageArrives ==
  /\ pc = "awaitPage"
  /\ \E elements \in CatalogPages, nextLink \in BOOLEAN :
       Accumulate(searchBooks(version, elements, nextLink))
  /\ UNCHANGED << version, MAX_RESULTS, query, author, topMatches, fullMetadata,
                  response, now, requested, fetchFailed >>

\* axios.get rejects (or the page cannot be parsed): searchBooks answers
\* from its catch block.
PageFails ==
  /\ pc = "awaitPage"
  /\ Accumulate(searchBooksCatch)
  /\ fetchFailed' = TRUE
  /\ UNCHANGED << version, MAX_RESULTS, query, author, topMatches, fullMetadata,
                  response, now, requested >>

\* The while condition fails: the listings are deduplicated, scored, sorted
\* and cut, and Promise.all calls getFullMetadata for every candidate.  All
\* of it runs without an await, so the clock reads of build 1 (the fallback
\* year and the recency bonus) see one date.
Rank ==
  /\ pc = "loop"
  /\ ~LoopCondition(version, hasMore, allMatches, pageCount, MAX_RESULTS)
  /\ \E date \in Dates :
       /\ now' = date
       /\ topMatches' = TopMatches(version, allMatches, query, author, date, MAX_RESULTS)
  /\ fullMetadata' = [ i \in 1..Len(topMatches') |-> Pending ]
  /\ pc' = "enrich"
  /\ UNCHANGED << version, MAX_RESULTS, query, author, allMatches, currentPage,
                  hasMore, pageCount, inFlight, response, requested, fetchFailed,
                  returned >>

\* getFullMetadata of candidate i returns from its try block.
EnrichSucceeds ==
  /\ pc = "enrich"
  /\ \E i \in 1..Len(fullMetadata), detail \in DetailPages :
       /\ IsPending(fullMetadata[i])
       /\ fullMetadata' =
            [ fullMetadata EXCEPT ![i] =
                Enriched(version, topMatches[i],
                         getFullMetadata(version, topMatches[i], detail)) ]
  /\ UNCHANGED << version, MAX_RESULTS, pc, query, author, allMatches,
                  currentPage, hasMore, pageCount, inFlight, topMatches, response,
                  now, requested, fetchFailed, returned >>

\* getFullMetadata of candidate i returns from its catch block.
EnrichFails ==
  /\ pc = "enrich"
  /\ \E i \in 1..Len(fullMetadata) :
       /\ IsPending(fullMetadata[i])
       /\ fullMetadata' =
            [ fullMetadata EXCEPT ![i] =
                Enriched(version, topMatches[i], getFullMetadataCatch(topMatches[i])) ]
  /\ UNCHANGED << version, MAX_RESULTS, pc, query, author, allMatches,
                  currentPage, hasMore, pageCount, inFlight, topMatches, response,
                  now, requested, fetchFailed, returned >>

\* Promise.all has resolved: the handler formats the books and answers.
Respond ==
  /\ pc = "enrich"
  /\ \A i \in 1..Len(fullMetadata) : ~IsPending(fullMetadata[i])
  /\ response' = ResponseFor(version, fullMetadata)
  /\ pc' = "done"
  /\ UNCHANGED << version, MAX_RESULTS, query, author, allMatches, currentPage,
                  hasMore, pageCount, inFlight, topMatches, fullMetadata, now,
                  requested, fetchFailed, returned >>

Next ==
  \/ HandleRequest
  \/ RequestPage
  \/ PageArrives
  \/ PageFails
  \/ Rank
  \/ EnrichSucceeds
  \/ EnrichFails
  \/ Respond

Spec == Init /\ [][Next]_vars

\* The request up to the ranking of its candidates: the pagination loop.
LoopNext ==
  \/ HandleRequest
  \/ RequestPage
  \/ PageArrives
  \/ PageFails
  \/ Rank

\* Every await of the loop completes (a page fetch is answered or fails) and
\* the handler runs when it can.
LoopSpec ==
  /\ Init
  /\ [][LoopNext]_vars
  /\ WF_vars(HandleRequest)
  /\ WF_vars(RequestPage)
  /\ WF_vars(PageArrives \/ PageFails)

\* ------------------------------------------------------------------------
\* Claims
\* ------------------------------------------------------------------------

\* The candidates have just been ranked and no enrichment has returned.
JustRanked ==
  /\ pc = "enrich"
  /\ \A i \in 1..Len(fullMetadata) : IsPending(fullMetadata[i])

\* The candidates have been ranked.
Ranked == pc = "enrich" \/ (pc = "done" /\ query # <<>>)

\* The handler has answered a request that passed the validation.
Answered == pc = "done" /\ query # <<>>

\* The pagination loop is over.
LoopLeft ==
  \/ pc \in {"enrich", "done"}
  \/ /\ pc = "loop"
     /\ ~LoopCondition(version, hasMore, allMatches, pageCount, MAX_RESULTS)

\* getFullMetadata of candidate i returned from its catch block.
EnrichmentFailed(i) ==
  /\ ~IsPending(fullMetadata[i])
  /\ ~Has(fullMetadata[i], "narrator")

\* C1: whatever the catalogue answers, also non-empty pages with hasMore =
\* true every time, the pagination loop of a request asks for at most three
\* pages and comes to its end.
C1_LoopTerminates ==
  /\ [](Len(requested) <= 3)
  /\ <>LoopLeft

\* C1 witness: three pages came, each with listings and a next link, fewer
\* listings than the count ceiling: only the page ceiling ends the loop.
C1_Witness ==
  /\ pc = "loop"
  /\ pageCount = 3
  /\ hasMore
  /\ Len(allMatches) < CountCeiling(version, MAX_RESULTS)

\* C2 (as claimed): build 1 never emits two candidates whose deduplication
\* keys (normalized cleanTitle, normalized first author) are equal.
C2_NoEqualKeysEmitted ==
  (version = 1 /\ Ranked) =>
    \A i, j \in 1..Len(topMatches) :
      i < j => DedupKey(topMatches[i]) # DedupKey(topMatches[j])

\* The subsequence of the candidates with score s.
WithScore(books, s) ==
  LET Same(b) == b.score = s IN SelectSeq(books, Same)

IsPrefix(a, b) == Len(a) <= Len(b) /\ a = SubSeq(b, 1, Len(a))

\* C3: the emitted candidates are in descending order of score, and the
\* candidates of one score are in the order in which the accumulation saw
\* them: they are the first of that score among the scored listings.
C3_SortedAndStable ==
  /\ Ranked =>
       \A i, j \in 1..Len(topMatches) :
         i < j => topMatches[i].score >= topMatches[j].score
  /\ JustRanked =>
       LET scored == ScoredMatches(version, allMatches, query, author, now)
       IN  \A i \in 1..Len(topMatches) :
             IsPrefix(WithScore(topMatches, topMatches[i].score),
                      WithScore(scored, topMatches[i].score))

\* C3 witness: the sort had work to do: a candidate seen later goes first,
\* and two candidates of one score follow it.
C3_Witness ==
  /\ JustRanked
  /\ Len(topMatches) >= 3
  /\ topMatches[1].score > topMatches[2].score
  /\ topMatches[2].score = topMatches[3].score
  /\ topMatches[2] # topMatches[3]
  /\ topMatches[1].id # allMatches[1].id

\* C4 (as claimed): every score lies within [0, 300].
C4_ScoreInRange ==
  Ranked => \A i \in 1..Len(topMatches) : topMatches[i].score \in 0..300

\* C5 (as claimed): when a page fetch failed, no further page is asked for
\* and the request is answered with success, one entry per candidate ranked
\* from the listings accumulated before.
C5_FetchFailureKeepsResults ==
  /\ fetchFailed => pc # "awaitPage"
  /\ (Answered /\ fetchFailed) =>
       /\ response.status = 200
       /\ Len(response.matches) = Len(topMatches)

\* C6 (as claimed): when the enrichment of a candidate failed, the request is
\* answered with success, one entry per candidate, the entry of the failed
\* candidate holding the fields of the candidate at its rank.
C6_EnrichmentFailureKeepsEntry ==
  (Answered /\ \E i \in 1..Len(fullMetadata) : EnrichmentFailed(i)) =>
    /\ response.status = 200
    /\ Len(response.matches) = Len(topMatches)
    /\ \A i \in 1..Len(topMatches) :
         EnrichmentFailed(i) =>
           response.matches[i] = FormatBook(version, topMatches[i])

\* The ids and the scores of a sequence of candidates.
IdsAndScores(books) ==
  [ i \in 1..Len(books) |-> << books[i].id, books[i].score >> ]

C8_FailureDistinguished ==
  (Answered /\ fetchFailed) => response # ResponseFor(version, <<>>)

\* C9 (as claimed): a minimum-score filter follows the sort.  The weakest
\* cutoff is a floor that removes the candidates matching nothing, those of
\* score 0 in build 1: no emitted candidate has that score.
C9_MinimumScoreFilter ==
  (version = 1 /\ Ranked) =>
    \A i \in 1..Len(topMatches) : topMatches[i].score > 0

\* C10: at most MAX_RESULTS candidates are emitted, and the matches of the
\* response are at most MAX_RESULTS.
C10_AtMostMaxResults ==
  /\ Len(topMatches) <= MAX_RESULTS
  /\ response.status = 200 => Len(response.matches) <= MAX_RESULTS

\* C10 witness: more listings were scored than MAX_RESULTS, and the response
\* holds MAX_RESULTS matches.
C10_Witness ==
  /\ Answered
  /\ response.status = 200
  /\ Len(ScoredMatches(version, allMatches, query, author, now)) > MAX_RESULTS
  /\ Len(response.matches) = MAX_RESULTS

\* The normalized clean title of a scored listing equals the normalized
\* query (build 1).
ExactTitle(book, q) == normalize(TitleOf(book)) = normalize(q)

\* C11 (as claimed): in build 1 a scored listing whose normalized clean title
\* equals the normalized query never has a lower score than a scored listing
\* whose normalized title differs from the query, and is never ranked after
\* it.
C11_ExactTitleHighest ==
  (version = 1 /\ JustRanked) =>
    LET scored == ScoredMatches(version, allMatches, query, author, now)
    IN  /\ \A i, j \in 1..Len(scored) :
             (ExactTitle(scored[i], query) /\ ~ExactTitle(scored[j], query))
               => scored[i].score >= scored[j].score
        /\ \A i, j \in 1..Len(topMatches) :
             (ExactTitle(topMatches[j], query) /\ ~ExactTitle(topMatches[i], query))
               => j < i

\* The number of listings in the pages searchBooks returned.
RECURSIVE ListingCount(_)
ListingCount(pages) ==
  IF pages = <<>> THEN 0
  ELSE Len(pages[Len(pages)].matches) + ListingCount(SubSeq(pages, 1, Len(pages) - 1))

\* One of the stop conditions has occurred: a page returned hasMore = false,
\* a page returned no listing, the listings returned reach the count ceiling,
\* or as many pages were returned as the page ceiling allows.
StopOccurred ==
  \/ \E k \in 1..Len(returned) : ~returned[k].hasMore
  \/ \E k \in 1..Len(returned) : returned[k].matches = <<>>
  \/ ListingCount(returned) >= CountCeiling(version, MAX_RESULTS)
  \/ Len(returned) >= MaxPages

\* The page that follows the pages asked for.
FollowingPage ==
  IF requested = <<>> THEN currentPage ELSE requested[Len(requested)] + 1

\* C12: once a stop condition has occurred no step of the request asks for a
\* page; while none has occurred, the step the handler takes in its loop
\* asks for the following page.
C12_StopConditions ==
  [][ IF StopOccurred
      THEN requested' = requested
      ELSE pc = "loop" => requested' = Append(requested, FollowingPage) ]_vars

\* C12 witness: build 1 asked for a second page and went on to the ranking
\* for the only reason that this page, which has a next link, held no
\* listing.
C12_Witness ==
  /\ version = 1
  /\ pc = "enrich"
  /\ Len(returned) = 2
  /\ returned[2].hasMore
  /\ returned[2].matches = <<>>
  /\ ListingCount(returned) < CountCeiling(version, MAX_RESULTS)

\* C13: at every moment at most one page fetch of the request is in flight,
\* and a page is asked for only when every page asked for before has been
\* answered, the answer with its hasMore flag being in the handler's hands.
C13_SerialFetches ==
  /\ [](/\ Cardinality(inFlight) <= 1
        /\ Len(requested) - Len(returned) \in {0, 1})
  /\ [][ requested' # requested =>
           /\ inFlight = {}
           /\ Len(returned) = Len(requested)
           /\ requested # <<>> => hasMore = returned[Len(returned)].hasMore
                                            /\ returned[Len(returned)].matches # <<>> ]_vars

\* C13 witness: the third page is in flight, the two pages before it have
\* been answered.
C13_Witness ==
  /\ pc = "awaitPage"
  /\ Len(requested) = 3
  /\ Len(returned) = 2
  /\ inFlight = { requested[3] }

\* C14 (as claimed): getFullMetadata is called for every selected candidate
\* before any call returns; the request is answered only when every call has
\* returned, and the answer lists one record per candidate, the record at
\* rank i being the formatted metadata of candidate i, which carries the
\* score of candidate i.
C14_JoinedInRankOrder ==
  /\ JustRanked => Len(fullMetadata) = Len(topMatches)
  /\ Answered =>
       /\ \A i \in 1..Len(fullMetadata) : ~IsPending(fullMetadata[i])
       /\ response.status = 200
       /\ Len(response.matches) = Len(topMatches)
       /\ \A i \in 1..Len(topMatches) :
            /\ fullMetadata[i].id = topMatches[i].id
            /\ fullMetadata[i].score = topMatches[i].score
            /\ response.matches[i] = FormatBook(version, fullMetadata[i])

====
